---------------------------- MODULE Spec2Model ----------------------------
(***************************************************************************)
(* Model of the actix-web idempotency middleware (src/src/lib.rs).         *)
(*                                                                         *)
(* One IdempotencyMiddleware instance serves a bounded number of requests. *)
(* Each request runs IdempotencyMiddleware::call: the synchronous part     *)
(* (header lookup, token parsing, service.call) is one step, the part of   *)
(* the returned future after `fut.await` is a second step.  The futures    *)
(* are LocalBoxFuture, polled by one worker thread, so the code between    *)
(* two await points is atomic; requests interleave only at `fut.await`.    *)
(***************************************************************************)
EXTENDS Integers, Sequences, FiniteSets, TLC

(***************************************************************************)
(* Bounds of the model.                                                    *)
(***************************************************************************)
MaxReqs == 3        \* requests the middleware instance receives
MaxTime == 2        \* ticks of the wall clock (Utc::now)
ClockReqs == 2      \* requests of a run in which time passes
TokenReqs == 2      \* requests of a run of SpecTokens
MaxRenders == 4     \* errors rendered in a run of SpecRender
Ttl == 1            \* the configured ttl of a Completed entry, in ticks
PendingTimeout == 1 \* the configured pendingTimeout, in ticks

(***************************************************************************)
(* Program constants.                                                      *)
(***************************************************************************)
HEADER_KEY == "Idempotency-Key"
BAD_REQUEST == 400
CONFLICT == 409

(***************************************************************************)
(* Header values a client can send, as byte sequences.                     *)
(***************************************************************************)
\* "67e55044-10b1-426f-9247-bb680e5fe0c8"
HvLower == <<54, 55, 101, 53, 53, 48, 52, 52, 45, 49, 48, 98, 49, 45, 52, 50, 54, 102, 45, 57, 50, 52, 55, 45, 98, 98, 54, 56, 48, 101, 53, 102, 101, 48, 99, 56>>
\* "67E55044-10B1-426F-9247-BB680E5FE0C8"
HvUpper == <<54, 55, 69, 53, 53, 48, 52, 52, 45, 49, 48, 66, 49, 45, 52, 50, 54, 70, 45, 57, 50, 52, 55, 45, 66, 66, 54, 56, 48, 69, 53, 70, 69, 48, 67, 56>>
\* "936da01f9abd4d9d80c702af85c822a8"
HvSimple == <<57, 51, 54, 100, 97, 48, 49, 102, 57, 97, 98, 100, 52, 100, 57, 100, 56, 48, 99, 55, 48, 50, 97, 102, 56, 53, 99, 56, 50, 50, 97, 56>>
\* "not-a-uuid"
HvNotUuid == <<110, 111, 116, 45, 97, 45, 117, 117, 105, 100>>
\* the two bytes 0xC3 0x28: a legal header value (obs-text), not visible ASCII
HvOpaque == <<195, 40>>

HeaderValues == {HvLower, HvUpper, HvSimple, HvNotUuid, HvOpaque}

\* The header map of a request: empty, or HEADER_KEY bound to one value.
NoHeaders == [n \in {} |-> <<>>]
WithKey(v) == [n \in {HEADER_KEY} |-> v]

\* Request payloads (method, path and body of the request), opaque to the
\* middleware and handed to the wrapped service.
Payloads == {"amt5", "amt7"}

\* The requests a client sends: every header map with the first payload, and
\* one token also with the second payload.
Request(h, p) == [headers |-> h, payload |-> p]
Requests ==
    {Request(NoHeaders, "amt5"), Request(WithKey(HvLower), "amt7")}
        \cup {Request(WithKey(v), "amt5") : v \in HeaderValues}

(***************************************************************************)
(* HeaderValue::to_str and Uuid::try_from, as called at line 116.          *)
(***************************************************************************)
IsVisibleAscii(b) == (b >= 32 /\ b < 127) \/ b = 9

\* HeaderValue::to_str: Ok only if every byte is visible ASCII.
ToStrOk(v) == \A i \in 1..Len(v) : IsVisibleAscii(v[i])

HexVal(b) ==
    IF b >= 48 /\ b <= 57 THEN b - 48
    ELSE IF b >= 97 /\ b <= 102 THEN b - 87
    ELSE IF b >= 65 /\ b <= 70 THEN b - 55
    ELSE -1

IsHex(b) == HexVal(b) >= 0

Drop(s, n) == SubSeq(s, n + 1, Len(s))

HyphenPos == {9, 14, 19, 24}
UrnPrefix == <<117, 114, 110, 58, 117, 117, 105, 100, 58>>

SimpleOk(s) == Len(s) = 32 /\ \A i \in 1..32 : IsHex(s[i])
HyphenatedOk(s) ==
    /\ Len(s) = 36
    /\ \A i \in 1..36 : IF i \in HyphenPos THEN s[i] = 45 ELSE IsHex(s[i])

\* the 32 hex digits of a well-formed simple or hyphenated string, as nibbles
Nibbles(s) ==
    LET keep == SelectSeq(s, LAMBDA b : b # 45)
    IN  [i \in 1..Len(keep) |-> HexVal(keep[i])]

NoUuid == <<>>

\* A variant of UuidTryFrom that keeps the text of a well-formed value as the
\* token.
UuidTryFromVerbatim(s) ==
    IF SimpleOk(s) \/ HyphenatedOk(s) THEN s ELSE <<>>

\* Uuid::try_from(&str): the Uuid (32 nibbles), or NoUuid for Err.
UuidTryFrom(s) ==
    IF Len(s) = 32 THEN (IF SimpleOk(s) THEN Nibbles(s) ELSE NoUuid)
    ELSE IF Len(s) = 36 THEN (IF HyphenatedOk(s) THEN Nibbles(s) ELSE NoUuid)
    ELSE IF Len(s) = 38 /\ s[1] = 123 /\ s[38] = 125
        THEN (IF HyphenatedOk(SubSeq(s, 2, 37)) THEN Nibbles(SubSeq(s, 2, 37)) ELSE NoUuid)
    ELSE IF Len(s) = 45 /\ SubSeq(s, 1, 9) = UrnPrefix
        THEN (IF HyphenatedOk(Drop(s, 9)) THEN Nibbles(Drop(s, 9)) ELSE NoUuid)
    ELSE NoUuid

(***************************************************************************)
(* Responses and errors.                                                   *)
(***************************************************************************)
NoResp == [status |-> 0, headers |-> <<>>, body |-> <<>>]

\* A variant of SerdeName without the explicit rename of AlreadyExists.
SerdeNameUppercase(e) ==
    CASE e = "Missing" -> "MISSING"
      [] e = "Malformed" -> "MALFORMED"
      [] e = "AlreadyExists" -> "ALREADYEXISTS"

\* serde name of an IdempotencyError variant (rename_all = "UPPERCASE",
\* AlreadyExists renamed explicitly)
SerdeName(e) ==
    CASE e = "Missing" -> "MISSING"
      [] e = "Malformed" -> "MALFORMED"
      [] e = "AlreadyExists" -> "ALREADY_EXISTS"

\* impl Into<HttpResponse> for IdempotencyError
IntoHttpResponse(e) ==
    [status  |-> IF e \in {"Missing", "Malformed"} THEN BAD_REQUEST ELSE CONFLICT,
     headers |-> << <<"content-type", "application/json">> >>,
     body    |-> << <<"error", SerdeName(e)>> >>]

\* What the wrapped service can answer: a response or an error of its own.
HandlerResponses ==
    { [status |-> 201, headers |-> << <<"location", "/x">> >>, body |-> <<"id", "x">>],
      [status |-> 200, headers |-> << <<"etag", "y">> >>, body |-> <<"id", "y">>] }
HandlerErrors == {"ErrorInternalServerError", "ErrorUnprocessableEntity"}

\* Result<ServiceResponse<EitherBody<B>>, Error> of call, or a panic of call.
\* side: "left" is the wrapped service's body, "right" the middleware's own.
NoResult    == [kind |-> "none",  side |-> "none",  resp |-> NoResp, err |-> "none"]
OkRight(r)  == [kind |-> "Ok",    side |-> "right", resp |-> r,      err |-> "none"]
OkLeft(r)   == [kind |-> "Ok",    side |-> "left",  resp |-> r,      err |-> "none"]
Err(e)      == [kind |-> "Err",   side |-> "none",  resp |-> NoResp, err |-> e]
Panicked    == [kind |-> "Panic", side |-> "none",  resp |-> NoResp, err |-> "none"]

\* impl From<HttpResponse> for CacheElement
CacheElementFrom(r, t) ==
    [response |-> r.body, headers |-> r.headers, statuscode |-> r.status, created_at |-> t]

(***************************************************************************)
(* State.                                                                  *)
(***************************************************************************)
VARIABLES
    req,             \* the requests received so far, in arrival order
    pc,              \* per request: "awaiting" (suspended at fut.await), "done"
                     \* or "dropped" (the future was dropped unfinished)
    token,           \* per request: the parsed Uuid, NoUuid if none was parsed
    invoked,         \* per request: times self.service.call(req) was called
    called_at,       \* per request: the time call was entered
    held,            \* per request: the mutexes its future holds while suspended
    served,          \* per request: what the wrapped service's future resolved to
    result,          \* per request: what call's future resolved to
    queue,           \* IdempotencyMiddleware.queue
    response_cache,  \* IdempotencyMiddleware.response_cache: its (key, value) entries
    now,             \* the wall clock
    rendered         \* the IdempotencyErrors turned into responses, with the responses

vars == <<req, pc, token, invoked, called_at, held, served, result, queue,
          response_cache, now, rendered>>

Reqs == 1..Len(req)

Awaiting == {i \in Reqs : pc[i] = "awaiting"}

\* HashMap: the keys bound, and the value bound to a key.
Keys(m) == {x.key : x \in m}
Get(m, k) == (CHOOSE x \in m : x.key = k).value

\* A variant of Insert that adds the binding and keeps an earlier one.
InsertKeeping(m, k, v) == m \cup {[key |-> k, value |-> v]}

\* A variant of Insert that forgets every other binding.
InsertAlone(m, k, v) == {[key |-> k, value |-> v]}

\* HashMap::insert: binds k to v, replacing an earlier binding of k.
Insert(m, k, v) == {x \in m : x.key # k} \cup {[key |-> k, value |-> v]}

\* A variant of HeldAcrossAwait: the queue is locked before the wrapped
\* service is called and the guard lives until the future ends.
HeldAcrossAwaitQueue == {"queue"}

\* The mutexes locked when the future suspends at fut.await: none, the first
\* lock() is at line 142 and each guard is a temporary of its statement.
HeldAcrossAwait == {}

\* Mutex::lock by request i succeeds when no other future holds the mutex.
LockFree(m, i) == \A j \in Reqs \ {i} : m \notin held[j]

\* new_transform: empty queue, empty response cache.
Init ==
    /\ req = <<>>
    /\ pc = <<>>
    /\ token = <<>>
    /\ invoked = <<>>
    /\ called_at = <<>>
    /\ held = <<>>
    /\ served = <<>>
    /\ result = <<>>
    /\ queue = <<>>
    /\ response_cache = {}
    /\ now = 0
    /\ rendered = <<>>

\* A request enters call and leaves its synchronous part at position c.
Arrive(rq, c, t, n, r) ==
    /\ req' = Append(req, rq)
    /\ pc' = Append(pc, c)
    /\ token' = Append(token, t)
    /\ invoked' = Append(invoked, n)
    /\ called_at' = Append(called_at, now)
    /\ held' = Append(held, IF c = "awaiting" THEN HeldAcrossAwait ELSE {})
    /\ served' = Append(served, NoResult)
    /\ result' = Append(result, r)
    /\ UNCHANGED <<queue, response_cache, now, rendered>>

\* A variant of CallMissing that forwards the request to the wrapped service
\* although it carries no key.
CallMissingForwarded(rq) ==
    /\ Len(req) < MaxReqs
    /\ HEADER_KEY \notin DOMAIN rq.headers
    /\ Arrive(rq, "awaiting", NoUuid, 1, NoResult)

\* call, lines 99-108: the header is absent.
CallMissing(rq) ==
    /\ Len(req) < MaxReqs
    /\ HEADER_KEY \notin DOMAIN rq.headers
    /\ Arrive(rq, "done", NoUuid, 0, OkRight(IntoHttpResponse("Missing")))

\* call, line 116: token.to_str().unwrap() panics on a value that is not
\* visible ASCII.
CallPanic(rq) ==
    /\ Len(req) < MaxReqs
    /\ HEADER_KEY \in DOMAIN rq.headers
    /\ ~ToStrOk(rq.headers[HEADER_KEY])
    /\ Arrive(rq, "done", NoUuid, 0, Panicked)

\* A variant of CallMalformed that records the rejected request in the queue.
CallMalformedQueued(rq) ==
    /\ Len(req) < MaxReqs
    /\ HEADER_KEY \in DOMAIN rq.headers
    /\ ToStrOk(rq.headers[HEADER_KEY])
    /\ UuidTryFrom(rq.headers[HEADER_KEY]) = NoUuid
    /\ req' = Append(req, rq)
    /\ pc' = Append(pc, "done")
    /\ token' = Append(token, NoUuid)
    /\ invoked' = Append(invoked, 0)
    /\ called_at' = Append(called_at, now)
    /\ held' = Append(held, {})
    /\ served' = Append(served, NoResult)
    /\ result' = Append(result, OkRight(IntoHttpResponse("Malformed")))
    /\ queue' = Append(queue, NoUuid)
    /\ UNCHANGED <<response_cache, now, rendered>>

\* call, lines 116-131: the value is text but no Uuid.
CallMalformed(rq) ==
    /\ Len(req) < MaxReqs
    /\ HEADER_KEY \in DOMAIN rq.headers
    /\ ToStrOk(rq.headers[HEADER_KEY])
    /\ UuidTryFrom(rq.headers[HEADER_KEY]) = NoUuid
    /\ Arrive(rq, "done", NoUuid, 0, OkRight(IntoHttpResponse("Malformed")))

\* A variant of CallService that answers from the response cache, whatever
\* the age of the entry, when the token has one.
CallServiceCached(rq) ==
    /\ Len(req) < MaxReqs
    /\ HEADER_KEY \in DOMAIN rq.headers
    /\ ToStrOk(rq.headers[HEADER_KEY])
    /\ UuidTryFrom(rq.headers[HEADER_KEY]) # NoUuid
    /\ LET t == UuidTryFrom(rq.headers[HEADER_KEY]) IN
       IF t \in Keys(response_cache)
       THEN Arrive(rq, "done", t, 0,
                   OkRight([status  |-> Get(response_cache, t).statuscode,
                            headers |-> Get(response_cache, t).headers,
                            body    |-> Get(response_cache, t).response]))
       ELSE Arrive(rq, "awaiting", t, 1, NoResult)

\* call, lines 116-139: the token is verified, the wrapped service is called
\* and the returned future suspends at fut.await.
CallService(rq) ==
    /\ Len(req) < MaxReqs
    /\ HEADER_KEY \in DOMAIN rq.headers
    /\ ToStrOk(rq.headers[HEADER_KEY])
    /\ UuidTryFrom(rq.headers[HEADER_KEY]) # NoUuid
    /\ Arrive(rq, "awaiting", UuidTryFrom(rq.headers[HEADER_KEY]), 1, NoResult)

\* A variant of Question that answers every failure of the wrapped service
\* with one generic error.
QuestionMasked(e) == Err("ErrorInternalServerError")

\* `fut.await?` on Err(e): the future returns Err(From::from(e)), and From
\* of actix_web::Error for itself leaves e as it is.
Question(e) == Err(e)

\* A variant of HandlerErr that queues the token before it looks at the
\* outcome of the wrapped service.
HandlerErrQueued(i, e) ==
    /\ pc[i] = "awaiting"
    /\ pc' = [pc EXCEPT ![i] = "done"]
    /\ held' = [held EXCEPT ![i] = {}]
    /\ served' = [served EXCEPT ![i] = Err(e)]
    /\ queue' = Append(queue, token[i])
    /\ result' = [result EXCEPT ![i] = Question(e)]
    /\ UNCHANGED <<req, token, invoked, called_at, response_cache, now, rendered>>

\* call, line 140: the wrapped service fails.
HandlerErr(i, e) ==
    /\ pc[i] = "awaiting"
    /\ pc' = [pc EXCEPT ![i] = "done"]
    /\ held' = [held EXCEPT ![i] = {}]
    /\ served' = [served EXCEPT ![i] = Err(e)]
    /\ result' = [result EXCEPT ![i] = Question(e)]
    /\ UNCHANGED <<req, token, invoked, called_at, queue, response_cache, now, rendered>>

\* call, lines 140-155: the wrapped service answers; the queue is locked and
\* the token queued, the response cache is locked and the response cached
\* under the token; the response is forwarded.
HandlerOk(i, r) ==
    /\ pc[i] = "awaiting"
    /\ LockFree("queue", i)
    /\ LockFree("response_cache", i)
    /\ pc' = [pc EXCEPT ![i] = "done"]
    /\ held' = [held EXCEPT ![i] = {}]
    /\ served' = [served EXCEPT ![i] = OkLeft(r)]
    /\ queue' = Append(queue, token[i])
    /\ response_cache' = Insert(response_cache, token[i], CacheElementFrom(r, now))
    /\ result' = [result EXCEPT ![i] = OkLeft(r)]
    /\ UNCHANGED <<req, token, invoked, called_at, now, rendered>>

\* The caller disconnects while the future is suspended at fut.await: the
\* future is dropped, and with it `fut`, the wrapped service's future it owns
\* (lines 137-140: the handler is awaited in place, not spawned).
Cancel(i) ==
    /\ pc[i] = "awaiting"
    /\ pc' = [pc EXCEPT ![i] = "dropped"]
    /\ held' = [held EXCEPT ![i] = {}]
    /\ UNCHANGED <<req, token, invoked, called_at, served, result, queue,
                   response_cache, now, rendered>>

\* Utc::now advances.
Tick ==
    /\ now < MaxTime
    /\ now' = now + 1
    /\ UNCHANGED <<req, pc, token, invoked, called_at, held, served, result, queue,
                   response_cache, rendered>>

\* The middleware never reads the clock to decide anything (created_at is
\* written, never read), so Spec lets requests run at one instant and
\* SpecClock adds the passage of time.
\* call is entered for a new request.
Call ==
    \/ \E rq \in Requests : CallMissing(rq)
    \/ \E rq \in Requests : CallPanic(rq)
    \/ \E rq \in Requests : CallMalformed(rq)
    \/ \E rq \in Requests : CallService(rq)

\* A suspended future is resumed or dropped.
Resume ==
    \/ \E i \in Reqs, e \in HandlerErrors : HandlerErr(i, e)
    \/ \E i \in Reqs, r \in HandlerResponses : HandlerOk(i, r)
    \/ \E i \in Reqs : Cancel(i)

Next == Call \/ Resume

Spec == Init /\ [][Next]_vars

\* The requests of a run in which time passes.
NextClock ==
    \/ Len(req) < ClockReqs /\ Call
    \/ Resume
    \/ Tick

SpecClock == Init /\ [][NextClock]_vars

\* The runs in which every request carries a well-formed key.
NextTokens ==
    \/ Len(req) < TokenReqs /\ \E rq \in Requests : CallService(rq)
    \/ Resume

SpecTokens == Init /\ [][NextTokens]_vars

\* The variants of IdempotencyError.
IdempotencyErrors == {"Missing", "Malformed", "AlreadyExists"}

\* Into::<HttpResponse>::into(e) for an IdempotencyError e.
Render(e) ==
    /\ Len(rendered) < MaxRenders
    /\ rendered' = Append(rendered, [error |-> e, response |-> IntoHttpResponse(e)])
    /\ UNCHANGED <<req, pc, token, invoked, called_at, held, served, result, queue,
                   response_cache, now>>

NextRender == \E e \in IdempotencyErrors : Render(e)

SpecRender == Init /\ [][NextRender]_vars

(***************************************************************************)
(* Vocabulary of the properties.                                           *)
(***************************************************************************)
\* The fingerprint of a request: its method, path and body.
Fingerprint(rq) == rq.payload

\* i carries a valid token and j carries the same token.
SameToken(i, j) == token[i] # NoUuid /\ token[i] = token[j]
SameOperation(i, j) == SameToken(i, j) /\ Fingerprint(req[i]) = Fingerprint(req[j])

\* The execution of i completed successfully.
Completed(i) == pc[i] = "done" /\ served[i].kind = "Ok"

\* The response a cache entry stands for.
Stored(t) ==
    [status  |-> Get(response_cache, t).statuscode,
     headers |-> Get(response_cache, t).headers,
     body    |-> Get(response_cache, t).response]

\* This step is the synchronous part of call for a new request.
Arrives == Len(req') = Len(req) + 1

MissingResponse ==
    [status |-> 400, headers |-> << <<"content-type", "application/json">> >>,
     body |-> << <<"error", "MISSING">> >>]
MalformedResponse ==
    [status |-> 400, headers |-> << <<"content-type", "application/json">> >>,
     body |-> << <<"error", "MALFORMED">> >>]
AlreadyExistsResponse ==
    [status |-> 409, headers |-> << <<"content-type", "application/json">> >>,
     body |-> << <<"error", "ALREADY_EXISTS">> >>]

\* The default token grammar: the value is text and a well-formed UUID.
WellFormed(v) == ToStrOk(v) /\ UuidTryFrom(v) # NoUuid

(***************************************************************************)
(* Properties.                                                             *)
(***************************************************************************)
\* C1: of requests that carry the same valid token and the same fingerprint
\* and are processed concurrently, only one invokes the wrapped handler (a
\* request that arrived while an earlier one is still in flight invokes
\* nothing), and all of them that are answered with a response are answered
\* with the same status, headers and body.
C1_HandlerOnceForConcurrent ==
    \A i, j \in Reqs :
        (i < j /\ SameOperation(i, j)) =>
            /\ pc[i] = "awaiting" => invoked[j] = 0
            /\ (result[i].kind = "Ok" /\ result[j].kind = "Ok")
                    => result[i].resp = result[j].resp

\* C2: a request that arrives after a request with the same token and the
\* same fingerprint completed successfully is answered with the stored
\* status, headers and body, and the wrapped handler is not invoked for it.
C2_ReplayAfterCompleted ==
    [][\A i \in Reqs :
          LET n == Len(req) + 1 IN
          (/\ Arrives
           /\ Completed(i)
           /\ token[i] # NoUuid
           /\ token'[n] = token[i]
           /\ Fingerprint(req'[n]) = Fingerprint(req[i]))
          => /\ invoked'[n] = 0
             /\ pc'[n] = "done"
             /\ result'[n].kind = "Ok"
             /\ result'[n].resp = Stored(token[i])]_vars

\* C3: a request that arrives with the token of a completed or still pending
\* request but with another fingerprint is answered 409 ALREADY_EXISTS at
\* once, and the wrapped handler is not invoked for it.
C3_ConflictOnMismatch ==
    [][\A i \in Reqs :
          LET n == Len(req) + 1 IN
          (/\ Arrives
           /\ Completed(i) \/ pc[i] = "awaiting"
           /\ token[i] # NoUuid
           /\ token'[n] = token[i]
           /\ Fingerprint(req'[n]) # Fingerprint(req[i]))
          => /\ invoked'[n] = 0
             /\ pc'[n] = "done"
             /\ result'[n].kind = "Ok"
             /\ result'[n].resp = AlreadyExistsResponse]_vars

\* C4: every request without the Idempotency-Key header is answered
\* 400 MISSING, and the wrapped handler is never invoked for it.
C4_MissingKey ==
    \A i \in Reqs :
        HEADER_KEY \notin DOMAIN req[i].headers =>
            /\ pc[i] = "done"
            /\ result[i].kind = "Ok"
            /\ result[i].side = "right"
            /\ result[i].resp = MissingResponse
            /\ invoked[i] = 0

\* C4 witness: a request without the header has been answered.
C4_Witness ==
    \E i \in Reqs : HEADER_KEY \notin DOMAIN req[i].headers /\ pc[i] = "done"

\* C5: every request whose Idempotency-Key value fails the token grammar,
\* be it text or not, is answered 400 MALFORMED, and the wrapped handler is
\* never invoked for it.
C5_MalformedKey ==
    \A i \in Reqs :
        (/\ HEADER_KEY \in DOMAIN req[i].headers
         /\ ~WellFormed(req[i].headers[HEADER_KEY]))
        => /\ pc[i] = "done"
           /\ result[i].kind = "Ok"
           /\ result[i].resp = MalformedResponse
           /\ invoked[i] = 0

\* C6: when the wrapped handler fails for a request with token T, no entry
\* for T is left in the store.
C6_FailureLeavesNoEntry ==
    [][\A i \in Reqs :
          (pc[i] = "awaiting" /\ pc'[i] = "done" /\ served'[i].kind = "Err")
          => token[i] \notin Keys(response_cache')]_vars

\* C7: when the wrapped handler fails, the caller receives exactly the
\* handler's error: neither another error nor a response.
C7_HandlerErrorUnmodified ==
    \A i \in Reqs :
        served[i].kind = "Err" =>
            /\ pc[i] = "done"
            /\ result[i].kind = "Err"
            /\ result[i].err = served[i].err
            /\ result[i].resp = NoResp

\* C7 witness: each error of the wrapped handler has reached a caller whose
\* request passed validation.
C7_Witness ==
    \A e \in HandlerErrors :
        \E i \in Reqs : token[i] # NoUuid /\ invoked[i] = 1 /\ served[i] = Err(e)

\* C8: a request that arrived while an earlier request with the same token
\* and fingerprint is in flight is not answered before that execution
\* resolves.
C8_WaiterReleasedAfterOwner ==
    \A i, j \in Reqs :
        (i < j /\ SameOperation(i, j) /\ pc[i] = "awaiting") => pc[j] # "done"

\* C9: for every token at most one handler invocation is in flight,
\* whatever the fingerprints.
C9_OneInFlightPerToken ==
    \A i, j \in Awaiting : i # j => token[i] # token[j]

\* C10: the status, headers and body stored for a token never change while
\* the entry exists.
C10_CompletedImmutable ==
    [][\A t \in Keys(response_cache) :
          t \in Keys(response_cache') =>
              /\ Get(response_cache', t).statuscode = Get(response_cache, t).statuscode
              /\ Get(response_cache', t).headers = Get(response_cache, t).headers
              /\ Get(response_cache', t).response = Get(response_cache, t).response]_vars

(***************************************************************************)
(* Properties of expiry, the store, rendering, tokens, locks, frames.      *)
(***************************************************************************)
\* The header value of request i.
KeyOf(i) == req[i].headers[HEADER_KEY]

\* Request i passed validation.
Validated(i) == token[i] # NoUuid

\* The hex digits a UUID text is written with, letters in lower case.
LowerCase(b) == IF b >= 65 /\ b <= 90 THEN b + 32 ELSE b
DigitsOf(v) ==
    LET keep == SelectSeq(v, LAMBDA b : b # 45)
    IN  [k \in 1..Len(keep) |-> LowerCase(keep[k])]

\* C11: a request that arrives with token T and a fingerprint not seen for
\* T, when the entry stored for T is older than the ttl, invokes the wrapped
\* handler and is answered neither at once nor from the store.
C11_ExpiredTokenIsFresh ==
    [][LET n == Len(req) + 1 IN
       (/\ Arrives
        /\ token'[n] # NoUuid
        /\ \E x \in response_cache :
              x.key = token'[n] /\ now >= x.value.created_at + Ttl
        /\ \A i \in Reqs :
              token[i] = token'[n] => Fingerprint(req[i]) # Fingerprint(req'[n]))
       => /\ invoked'[n] = 1
          /\ pc'[n] = "awaiting"
          /\ result'[n] = NoResult]_vars

\* C11 witness: a request arrived with a new fingerprint after the entry of
\* its token, stored by an earlier request, had outlived the ttl, and its
\* handler is in flight.
C11_Witness ==
    \E n \in Reqs :
        /\ pc[n] = "awaiting"
        /\ invoked[n] = 1
        /\ \E x \in response_cache :
              x.key = token[n] /\ called_at[n] >= x.value.created_at + Ttl
        /\ \E i \in Reqs : i < n /\ Completed(i) /\ token[i] = token[n]
        /\ \A i \in Reqs :
              (i < n /\ token[i] = token[n])
                  => Fingerprint(req[i]) # Fingerprint(req[n])

C13_ErrorRendering ==
    \A k \in 1..Len(rendered) :
        LET e == rendered[k].error
            r == rendered[k].response
        IN  /\ e = "Missing"
                => r.status = 400 /\ r.body = << <<"error", "MISSING">> >>
            /\ e = "Malformed"
                => r.status = 400 /\ r.body = << <<"error", "MALFORMED">> >>
            /\ e = "AlreadyExists"
                => r.status = 409 /\ r.body = << <<"error", "ALREADY_EXISTS">> >>

\* C13 witness: each of the three errors has been rendered.
C13_Witness ==
    \A e \in IdempotencyErrors : \E k \in 1..Len(rendered) : rendered[k].error = e

C15_NoLockAcrossHandler ==
    /\ \A i \in Awaiting : held[i] = {}
    /\ \A j \in Awaiting :
          (\E i \in Awaiting : token[i] # token[j])
              => \A r \in HandlerResponses : ENABLED HandlerOk(j, r)
    /\ (Awaiting # {} /\ Len(req) < MaxReqs)
          => ENABLED CallService(Request(WithKey(HvSimple), "amt5"))

\* C15 witness: a request that arrived while the handler for another token
\* was in flight has completed, and that handler is still in flight.
C15_Witness ==
    \E i, j \in Reqs :
        /\ i < j
        /\ pc[i] = "awaiting"
        /\ Completed(j)
        /\ Validated(i) /\ Validated(j) /\ token[i] # token[j]

\* C16: a request rejected with MISSING or MALFORMED leaves the queue and
\* the response cache as they were.
C16_ValidationHasNoEffect ==
    [][LET n == Len(req) + 1 IN
       (/\ Arrives
        /\ result'[n].kind = "Ok"
        /\ result'[n].resp \in {MissingResponse, MalformedResponse})
       => UNCHANGED <<queue, response_cache>>]_vars

\* C16 witness: requests were rejected with MISSING and with MALFORMED, and
\* the store is not empty.
C16_Witness ==
    /\ queue # <<>>
    /\ response_cache # {}
    /\ \E i \in Reqs : result[i].resp = MissingResponse
    /\ \E i \in Reqs : result[i].resp = MalformedResponse

\* C17: a wrapped handler that was started and is no longer in flight has
\* run to completion, also when the caller disconnected; after a success its
\* token has an entry.
C17_HandlerRunsToCompletion ==
    \A i \in Reqs :
        (invoked[i] = 1 /\ pc[i] # "awaiting") =>
            /\ served[i].kind \in {"Ok", "Err"}
            /\ served[i].kind = "Ok" => token[i] \in Keys(response_cache)

\* C18: no execution stays pending for longer than the pendingTimeout.
C18_PendingIsTimedOut ==
    \A i \in Awaiting : now - called_at[i] <= PendingTimeout

\* C19: the steps of a call whose wrapped handler fails leave the queue and
\* the response cache as they were.
C19_FailureTouchesNothing ==
    [][/\ \A i \in Reqs :
             (pc[i] = "awaiting" /\ served'[i].kind = "Err")
                 => UNCHANGED <<queue, response_cache>>
       /\ (Arrives /\ pc'[Len(req) + 1] = "awaiting")
             => UNCHANGED <<queue, response_cache>>]_vars

\* C19 witness: a wrapped handler failed and the store is not empty.
C19_Witness ==
    /\ queue # <<>>
    /\ response_cache # {}
    /\ \E i \in Reqs : pc[i] = "done" /\ served[i].kind = "Err"

\* C20: the step that stores the response of a call with token T leaves the
\* entry of every other token as it was, present or absent.
C20_OnlyOwnEntryChanges ==
    [][\A i \in Reqs :
          (pc[i] = "awaiting" /\ served'[i].kind = "Ok") =>
              \A x \in response_cache \cup response_cache' :
                  x.key # token[i] => (x \in response_cache <=> x \in response_cache')]_vars

\* C20 witness: the response cache holds entries of two tokens.
C20_Witness ==
    \E x, y \in response_cache : x.key # y.key

=============================================================================
